---- MODULE Spec2Model ----
(***************************************************************************)
(* Model of schema/parser.go of sqldef: the translation of the syntax      *)
(* tree of the SQL grammar (package sqlparser) into the schema model       *)
(* (Value, Column, Index, Table, DDL), and the splitting of a ';'-joined   *)
(* batch into statements.                                                  *)
(*                                                                         *)
(* Go strings whose characters matter (statement texts, raw literal        *)
(* tokens) are sequences of one-character strings; identifiers and type    *)
(* names, which the code only copies, are TLA+ strings.  A Go nil pointer, *)
(* nil interface or nil error is the record Nil.                           *)
(***************************************************************************)
EXTENDS Integers, Sequences, FiniteSets, TLC

VARIABLES
    pc,          \* position of the caller: "idle", inside parseDDLs' loop, or returned
    last,        \* the last completed call of parseValue/parseTable/parseIndex/parseDDL
    mode,        \* parseDDLs: argument mode
    str,         \* parseDDLs: argument str
    ddls,        \* parseDDLs: local ddls, the result of strings.Split
    idx,         \* parseDDLs: position of the range loop in ddls (1-based)
    result,      \* parseDDLs: local result
    err,         \* parseDDLs: the returned error (Nil until a dispatch fails)
    dispatched   \* history: the texts handed to parseDDL by the running parseDDLs

vars == <<pc, last, mode, str, ddls, idx, result, err, dispatched>>

(***************************************************************************)
(* Bounds of the model.                                                    *)
(***************************************************************************)
MaxRawLen == 2      \* longest raw literal token given to parseValue directly
MaxStmtLen == 3     \* longest statement text given to parseDDL directly
MaxBatchLen == 5    \* longest batch text given to parseDDLs
MaxCols == 2        \* most column definitions of a CREATE TABLE node
MaxIdx == 2         \* most inline index definitions of a CREATE TABLE node
MaxIdxCols == 2     \* most columns of one index

Nil == [isNil |-> TRUE]

RECURSIVE SeqsUpTo(_, _)
SeqsUpTo(S, n) ==
    IF n = 0 THEN {<<>>}
    ELSE LET shorter == SeqsUpTo(S, n - 1)
         IN  shorter \cup {Append(s, c) : s \in {t \in shorter : Len(t) = n - 1}, c \in S}

(***************************************************************************)
(* Package strconv and fmt, as far as parser.go uses them.                 *)
(***************************************************************************)
Digits == {"0", "1", "2", "3", "4", "5", "6", "7", "8", "9"}

DigitVal(c) ==
    CASE c = "0" -> 0 [] c = "1" -> 1 [] c = "2" -> 2 [] c = "3" -> 3 [] c = "4" -> 4
      [] c = "5" -> 5 [] c = "6" -> 6 [] c = "7" -> 7 [] c = "8" -> 8 [] c = "9" -> 9

RECURSIVE DecimalOf(_)
DecimalOf(s) ==
    IF s = <<>> THEN 0
    ELSE 10 * DecimalOf(SubSeq(s, 1, Len(s) - 1)) + DigitVal(s[Len(s)])

AllDigits(s) == \A i \in 1..Len(s) : s[i] \in Digits

\* strconv.Atoi: an optional sign, then one or more decimal digits; the value
\* and a nil error, or 0 and a syntax error.  (A token of at most MaxRawLen
\* characters is far from the range error of a 64-bit int.)
Atoi(s) ==
    LET signed == s # <<>> /\ s[1] \in {"+", "-"}
        body   == IF signed THEN Tail(s) ELSE s
    IN  IF body # <<>> /\ AllDigits(body)
          THEN [val |-> IF signed /\ s[1] = "-" THEN 0 - DecimalOf(body) ELSE DecimalOf(body),
                err |-> Nil]
          ELSE [val |-> 0, err |-> [msg |-> "strconv.Atoi: invalid syntax", input |-> s]]

\* A float64 is written as the decimal it is nearest to: neg, mant / 10^frac,
\* with no trailing zero in the fraction.  The tokens of the model are short
\* decimals, and distinct short decimals round to distinct doubles.
FloatZero == [neg |-> FALSE, mant |-> 0, frac |-> 0]

RECURSIVE NormFloat(_)
NormFloat(f) ==
    IF f.frac > 0 /\ f.mant % 10 = 0
      THEN NormFloat([neg |-> f.neg, mant |-> f.mant \div 10, frac |-> f.frac - 1])
      ELSE f

\* strconv.ParseFloat(s, 64) on decimal tokens: an optional sign, digits with at
\* most one '.', at least one digit; the value and a nil error, or 0 and a
\* syntax error.
ParseFloat(s) ==
    LET signed == s # <<>> /\ s[1] \in {"+", "-"}
        body   == IF signed THEN Tail(s) ELSE s
        dots   == {i \in 1..Len(body) : body[i] = "."}
        dot    == IF dots = {} THEN Len(body) + 1 ELSE CHOOSE i \in dots : TRUE
        ip     == SubSeq(body, 1, dot - 1)
        fp     == SubSeq(body, dot + 1, Len(body))
    IN  IF Cardinality(dots) <= 1 /\ AllDigits(ip) /\ AllDigits(fp) /\ Len(ip) + Len(fp) >= 1
          THEN [val |-> NormFloat([neg  |-> signed /\ s[1] = "-",
                                   mant |-> DecimalOf(ip \o fp),
                                   frac |-> Len(fp)]),
                err |-> Nil]
          ELSE [val |-> FloatZero,
                err |-> [msg |-> "strconv.ParseFloat: invalid syntax", input |-> s]]

\* fmt.Sprint of a value whose underlying type is bool.
Sprint(b) == IF b THEN "true" ELSE "false"

\* strconv.ParseBool: the value and a nil error, or false and a syntax error.
ParseBool(s) ==
    IF s \in {"1", "t", "T", "TRUE", "true", "True"} THEN [val |-> TRUE, err |-> Nil]
    ELSE IF s \in {"0", "f", "F", "FALSE", "false", "False"} THEN [val |-> FALSE, err |-> Nil]
    ELSE [val |-> FALSE, err |-> [msg |-> "strconv.ParseBool: invalid syntax", input |-> s]]

castBool(val) == ParseBool(Sprint(val)).val

(***************************************************************************)
(* Literals of the grammar (sqlparser.SQLVal) and parseValue.              *)
(***************************************************************************)
StrVal == "StrVal"
IntVal == "IntVal"
FloatVal == "FloatVal"
HexNum == "HexNum"
HexVal == "HexVal"
ValArg == "ValArg"
BitVal == "BitVal"
OtherVal == "OtherVal"     \* any ValType outside the seven the grammar declares

ValTypes == {StrVal, IntVal, FloatVal, HexNum, HexVal, ValArg, BitVal, OtherVal}

ValueTypeStr == "ValueTypeStr"
ValueTypeInt == "ValueTypeInt"
ValueTypeFloat == "ValueTypeFloat"
ValueTypeHexNum == "ValueTypeHexNum"
ValueTypeHex == "ValueTypeHex"
ValueTypeValArg == "ValueTypeValArg"
ValueTypeBit == "ValueTypeBit"

SQLVal(t, v) == [Type |-> t, Val |-> v]

\* line 52: the error of Atoi is dropped, the value kept
IntPayload(raw) == Atoi(raw).val

\* line 55: the error of ParseFloat is dropped, the value kept
FloatPayload(raw) == ParseFloat(raw).val

\* Mutant: every raw text but "0" counts as a set bit.
BitPayload_NotZero(raw) == raw # <<"0">>

\* lines 58-62
BitPayload(raw) == raw = <<"1">>

parseValue(val) ==
    IF val = Nil THEN Nil
    ELSE IF val.Type \notin {StrVal, IntVal, FloatVal, HexNum, HexVal, ValArg, BitVal} THEN Nil
    ELSE
      LET valueType ==
            CASE val.Type = StrVal   -> ValueTypeStr
              [] val.Type = IntVal   -> ValueTypeInt
              [] val.Type = FloatVal -> ValueTypeFloat
              [] val.Type = HexNum   -> ValueTypeHexNum
              [] val.Type = HexVal   -> ValueTypeHex
              [] val.Type = ValArg   -> ValueTypeValArg
              [] val.Type = BitVal   -> ValueTypeBit
      IN  [valueType |-> valueType,
           raw       |-> val.Val,
           strVal    |-> IF valueType = ValueTypeStr THEN val.Val ELSE <<>>,
           intVal    |-> IF valueType = ValueTypeInt THEN IntPayload(val.Val) ELSE 0,
           floatVal  |-> IF valueType = ValueTypeFloat THEN FloatPayload(val.Val) ELSE FloatZero,
           bitVal    |-> IF valueType = ValueTypeBit THEN BitPayload(val.Val) ELSE FALSE]

RawChars == {"0", "1", "-", ".", "x"}
Raws == SeqsUpTo(RawChars, MaxRawLen)
Literals == {SQLVal(t, v) : t \in ValTypes, v \in Raws} \cup {Nil}

(***************************************************************************)
(* Syntax tree of the grammar: identifiers, CREATE TABLE and index nodes.  *)
(***************************************************************************)
Ident(name) == [val |-> name]

\* ColIdent.String() and TableIdent.String(): the identifier's text.
String(id) == id.val

ColumnType(t, unsigned, notNull, autoinc, default, length, scale, keyOpt) ==
    [Type |-> t, Unsigned |-> unsigned, NotNull |-> notNull, Autoincrement |-> autoinc,
     Default |-> default, Length |-> length, Scale |-> scale, KeyOpt |-> keyOpt]

ColumnDefinition(name, type) == [Name |-> Ident(name), Type |-> type]

IndexInfo(name, type, primary, unique) ==
    [Name |-> Ident(name), Type |-> type, Primary |-> primary, Unique |-> unique]

IndexColumnNode(name, length) == [Column |-> Ident(name), Length |-> length]

IndexDefinition(info, columns) == [Info |-> info, Columns |-> columns]

IndexSpecNode(name, unique) == [Name |-> Ident(name), Unique |-> unique]

\* sqlparser.DDL, the fields parser.go reads.
DDLNode(action, table, newName, tableSpec, indexSpec, indexCols) ==
    [kind |-> "DDL", Action |-> action,
     Table |-> [Name |-> Ident(table)], NewName |-> [Name |-> Ident(newName)],
     TableSpec |-> tableSpec, IndexSpec |-> indexSpec, IndexCols |-> indexCols]

\* ColumnKeyOption(x): a conversion between integer types, which keeps the ordinal.
ColumnKeyOption(k) == k

\* lines 73-83: the Column of one column definition
parseColumn(parsedCol) ==
    [name          |-> String(parsedCol.Name),
     typeName      |-> parsedCol.Type.Type,
     unsigned      |-> castBool(parsedCol.Type.Unsigned),
     notNull       |-> castBool(parsedCol.Type.NotNull),
     autoIncrement |-> castBool(parsedCol.Type.Autoincrement),
     defaultVal    |-> parseValue(parsedCol.Type.Default),
     length        |-> parseValue(parsedCol.Type.Length),
     scale         |-> parseValue(parsedCol.Type.Scale),
     keyOption     |-> ColumnKeyOption(parsedCol.Type.KeyOpt)]

\* Mutant: a column whose name was already declared is dropped.
RECURSIVE parseTableColumns_Dedup(_)
parseTableColumns_Dedup(cols) ==
    IF cols = <<>> THEN <<>>
    ELSE LET front == SubSeq(cols, 1, Len(cols) - 1)
             col   == cols[Len(cols)]
         IN  IF \E j \in 1..Len(front) : front[j].Name = col.Name
               THEN parseTableColumns_Dedup(front)
               ELSE Append(parseTableColumns_Dedup(front), parseColumn(col))

\* lines 72-85: the loop over the column definitions, appending in order
RECURSIVE parseTableColumns(_)
parseTableColumns(cols) ==
    IF cols = <<>> THEN <<>>
    ELSE <<parseColumn(Head(cols))>> \o parseTableColumns(Tail(cols))

RECURSIVE parseTableIndexColumns(_)
parseTableIndexColumns(cols) ==
    IF cols = <<>> THEN <<>>
    ELSE <<[column |-> String(Head(cols).Column), length |-> parseValue(Head(cols).Length)]>>
         \o parseTableIndexColumns(Tail(cols))

RECURSIVE parseTableIndexes(_)
parseTableIndexes(defs) ==
    IF defs = <<>> THEN <<>>
    ELSE LET indexDef == Head(defs)
         IN  <<[name      |-> String(indexDef.Info.Name),
                indexType |-> indexDef.Info.Type,
                columns   |-> parseTableIndexColumns(indexDef.Columns),
                primary   |-> indexDef.Info.Primary,
                unique    |-> indexDef.Info.Unique]>>
             \o parseTableIndexes(Tail(defs))

parseTable(stmt) ==
    [name    |-> String(stmt.NewName.Name),
     columns |-> parseTableColumns(stmt.TableSpec.Columns),
     indexes |-> parseTableIndexes(stmt.TableSpec.Indexes)]

RECURSIVE parseIndexColumns(_)
parseIndexColumns(idents) ==
    IF idents = <<>> THEN <<>>
    ELSE <<[column |-> String(Head(idents)), length |-> Nil]>> \o parseIndexColumns(Tail(idents))

\* The zero Index{} returned beside an error.
ZeroIndex == [name |-> "", indexType |-> "", columns |-> <<>>, primary |-> FALSE, unique |-> FALSE]

\* Mutant: the primary flag is derived from the action.
parseIndex_PrimaryFromAction(stmt) ==
    IF stmt.IndexSpec = Nil
      THEN [index |-> ZeroIndex,
            err   |-> [msg |-> "stmt.IndexSpec was null on parseIndex", stmt |-> stmt]]
      ELSE [index |-> [name      |-> String(stmt.IndexSpec.Name),
                       indexType |-> "",
                       columns   |-> parseIndexColumns(stmt.IndexCols),
                       primary   |-> stmt.Action = "add primary key",
                       unique    |-> stmt.IndexSpec.Unique],
            err   |-> Nil]

parseIndex(stmt) ==
    IF stmt.IndexSpec = Nil
      THEN [index |-> ZeroIndex,
            err   |-> [msg |-> "stmt.IndexSpec was null on parseIndex", stmt |-> stmt]]
      ELSE [index |-> [name      |-> String(stmt.IndexSpec.Name),
                       indexType |-> "",
                       columns   |-> parseIndexColumns(stmt.IndexCols),
                       primary   |-> FALSE,
                       unique    |-> stmt.IndexSpec.Unique],
            err   |-> Nil]

(***************************************************************************)
(* Nodes given to parseTable and parseIndex directly.                      *)
(***************************************************************************)
ColNames == {"a", "b"}

ColumnTypes ==
    { ColumnType("int", FALSE, FALSE, FALSE, Nil, Nil, Nil, 0),
      ColumnType("varchar", FALSE, TRUE, FALSE, SQLVal(StrVal, <<"x">>), SQLVal(IntVal, <<"1", "0">>), Nil, 2),
      ColumnType("decimal", TRUE, FALSE, TRUE, SQLVal(FloatVal, <<".", "1">>), SQLVal(IntVal, <<"1", "0">>),
                 SQLVal(IntVal, <<"1">>), 1) }

ColumnDefs == {ColumnDefinition(n, t) : n \in ColNames, t \in ColumnTypes}

IndexColumnNodes == {IndexColumnNode("a", Nil), IndexColumnNode("b", SQLVal(IntVal, <<"1", "0">>))}

IndexInfos == {IndexInfo("i", "key", FALSE, FALSE), IndexInfo("PRIMARY", "primary key", TRUE, TRUE),
               IndexInfo("u", "unique key", FALSE, TRUE)}

IndexDefs ==
    {IndexDefinition(info, <<IndexColumnNode("a", Nil)>>) : info \in IndexInfos}
      \cup {IndexDefinition(IndexInfo("i", "key", FALSE, FALSE), cols) :
              cols \in SeqsUpTo(IndexColumnNodes, MaxIdxCols)}

TableSpecs ==
    {[Columns |-> cols, Indexes |-> <<>>] : cols \in SeqsUpTo(ColumnDefs, MaxCols)}
      \cup {[Columns |-> <<ColumnDefinition("a", ColumnType("int", FALSE, FALSE, FALSE, Nil, Nil, Nil, 0))>>,
             Indexes |-> ixs] : ixs \in SeqsUpTo(IndexDefs, MaxIdx)}

TableNodes == {DDLNode("create", "", "t", ts, Nil, <<>>) : ts \in TableSpecs}

IndexActions == {"create index", "add index", "add primary key"}

IndexSpecs == {IndexSpecNode(n, u) : n \in {"i", "j"}, u \in BOOLEAN} \cup {Nil}

IndexNodes ==
    {DDLNode(a, "t", "", Nil, spec, cols) :
        a \in IndexActions, spec \in IndexSpecs,
        cols \in SeqsUpTo({Ident(n) : n \in ColNames}, MaxIdxCols)}

(***************************************************************************)
(* Package strings, as far as parseDDLs uses it.                           *)
(***************************************************************************)
\* Mutant: the text is cut at the first separator only.
Split_FirstOnly(s, sep) ==
    LET at == {i \in 1..Len(s) : s[i] = sep}
    IN  IF at = {} THEN <<s>>
        ELSE LET i == CHOOSE j \in at : \A k \in at : j <= k
             IN  <<SubSeq(s, 1, i - 1), SubSeq(s, i + 1, Len(s))>>

\* strings.Split(s, sep) for a one-character sep: one more piece than there
\* are separators; the empty string gives one empty piece.
RECURSIVE Split(_, _)
Split(s, sep) ==
    LET at == {i \in 1..Len(s) : s[i] = sep}
    IN  IF at = {} THEN <<s>>
        ELSE LET i == CHOOSE j \in at : \A k \in at : j <= k
             IN  <<SubSeq(s, 1, i - 1)>> \o Split(SubSeq(s, i + 1, Len(s)), sep)

WhiteSpace == {" ", "\t", "\n", "\r"}

RECURSIVE TrimLeft(_)
TrimLeft(s) == IF s # <<>> /\ Head(s) \in WhiteSpace THEN TrimLeft(Tail(s)) ELSE s

RECURSIVE TrimRight(_)
TrimRight(s) ==
    IF s # <<>> /\ s[Len(s)] \in WhiteSpace THEN TrimRight(SubSeq(s, 1, Len(s) - 1)) ELSE s

\* Mutant: only the leading white space is removed.
TrimSpace_LeftOnly(s) == TrimLeft(s)

\* strings.TrimSpace: leading and trailing white space removed.
TrimSpace(s) == TrimRight(TrimLeft(s))

(***************************************************************************)
(* The grammar, sqlparser.ParseWithMode.  parser.go treats it as given: a   *)
(* function from a text and a dialect to a syntax tree or a syntax error.  *)
(* The model's grammar reads one-character tokens separated by white       *)
(* space: a keyword, then column identifiers.                              *)
(*   T  CREATE TABLE t (<ident> int, ...)       action "create"            *)
(*   G  the same, in a syntax only the Postgres dialect accepts            *)
(*   I  CREATE INDEX i ON t (<idents>)          action "create index"      *)
(*   U  CREATE UNIQUE INDEX u ON t (<idents>)   action "create index"      *)
(*   A  ALTER TABLE t ADD INDEX i (<idents>)    action "add index"         *)
(*   K  ALTER TABLE t ADD PRIMARY KEY (<idents>) action "add primary key"  *)
(*   N  an "add index" node that carries no index specification            *)
(*   D  DROP TABLE t                            action "drop"              *)
(*   R  RENAME TABLE t                          action "rename"            *)
(*   S  SELECT ...                              not a DDL node             *)
(* Every other text is a syntax error.                                     *)
(***************************************************************************)
ParserModeMysql == "ParserModeMysql"
ParserModePostgres == "ParserModePostgres"
GeneratorModeMysql == "GeneratorModeMysql"
GeneratorModePostgres == "GeneratorModePostgres"
GeneratorModes == {GeneratorModeMysql, GeneratorModePostgres}

IdentChars == {"a", "b"}
Keywords == {"T", "G", "I", "U", "A", "K", "N", "D", "R", "S"}

IntColumn(name) == ColumnDefinition(name, ColumnType("int", FALSE, FALSE, FALSE, Nil, Nil, Nil, 0))

ParseWithMode(sql, parserMode) ==
    LET toks   == SelectSeq(sql, LAMBDA c : c \notin WhiteSpace)
        args   == IF toks = <<>> THEN <<>> ELSE Tail(toks)
        idents == [i \in 1..Len(args) |-> Ident(args[i])]
        kw     == Head(toks)
        syntaxError ==
            [stmt |-> Nil, err |-> [msg |-> "syntax error", near |-> sql, mode |-> parserMode]]
        ok(stmt) == [stmt |-> stmt, err |-> Nil]
        table  == [Columns |-> [i \in 1..Len(args) |-> IntColumn(args[i])], Indexes |-> <<>>]
    IN  IF toks = <<>> \/ kw \notin Keywords \/ \E i \in 1..Len(args) : args[i] \notin IdentChars
          THEN syntaxError
        ELSE IF kw = "G" /\ parserMode # ParserModePostgres THEN syntaxError
        ELSE CASE kw \in {"T", "G"} -> ok(DDLNode("create", "", "t", table, Nil, <<>>))
               [] kw = "I" -> ok(DDLNode("create index", "t", "", Nil, IndexSpecNode("i", FALSE), idents))
               [] kw = "U" -> ok(DDLNode("create index", "t", "", Nil, IndexSpecNode("u", TRUE), idents))
               [] kw = "A" -> ok(DDLNode("add index", "t", "", Nil, IndexSpecNode("i", FALSE), idents))
               [] kw = "K" -> ok(DDLNode("add primary key", "t", "", Nil, IndexSpecNode("PRIMARY", TRUE), idents))
               [] kw = "N" -> ok(DDLNode("add index", "t", "", Nil, Nil, idents))
               [] kw = "D" -> ok(DDLNode("drop", "t", "", Nil, Nil, <<>>))
               [] kw = "R" -> ok(DDLNode("rename", "t", "t", Nil, Nil, <<>>))
               [] kw = "S" -> ok([kind |-> "Select"])

(***************************************************************************)
(* parseDDL.  A call returns the pair (DDL, error).                        *)
(***************************************************************************)
Return(ddl, e) == [ddl |-> ddl, err |-> e]

\* lines 144-149: the dialect of the grammar for a generator mode
ParserModeOf(m) == IF m = GeneratorModePostgres THEN ParserModePostgres ELSE ParserModeMysql

\* Mutant: the variant of the first index route is built on all three.
IndexDDL_AlwaysCreateIndex(variant, stmt, ddl) ==
    LET r == parseIndex(stmt)
    IN  IF r.err # Nil THEN Return(Nil, r.err)
        ELSE Return([variant   |-> "CreateIndex",
                     statement |-> ddl,
                     tableName |-> String(stmt.Table.Name),
                     index     |-> r.index], Nil)

\* lines 164-193: the three index routes, which differ in the variant built
IndexDDL(variant, stmt, ddl) ==
    LET r == parseIndex(stmt)
    IN  IF r.err # Nil THEN Return(Nil, r.err)
        ELSE Return([variant   |-> variant,
                     statement |-> ddl,
                     tableName |-> String(stmt.Table.Name),
                     index     |-> r.index], Nil)

\* lines 156-202: the type switch on the statement and the chain on its action
DispatchStmt(stmt, ddl) ==
    IF stmt.kind = "DDL"
      THEN IF stmt.Action = "create"
             THEN Return([variant |-> "CreateTable", statement |-> ddl, table |-> parseTable(stmt)], Nil)
           ELSE IF stmt.Action = "create index" THEN IndexDDL("CreateIndex", stmt, ddl)
           ELSE IF stmt.Action = "add index" THEN IndexDDL("AddIndex", stmt, ddl)
           ELSE IF stmt.Action = "add primary key" THEN IndexDDL("AddPrimaryKey", stmt, ddl)
           ELSE Return(Nil, [msg    |-> "unsupported type of DDL action",
                             action |-> stmt.Action,
                             ddl    |-> ddl])
      ELSE Return(Nil, [msg |-> "unsupported type of SQL (only DDL is supported)", ddl |-> ddl])

\* Mutant: the statement kept in the DDL is the text with its white space trimmed.
parseDDL_TrimmedText(m, ddl) ==
    LET parsed == ParseWithMode(ddl, ParserModeOf(m))
    IN  IF parsed.err # Nil THEN Return(Nil, parsed.err)
        ELSE DispatchStmt(parsed.stmt, TrimSpace(ddl))

\* Mutant: a failure of the grammar is reported as an unsupported statement.
parseDDL_ErrorReclassified(m, ddl) ==
    LET parsed == ParseWithMode(ddl, ParserModeOf(m))
    IN  IF parsed.err # Nil
          THEN Return(Nil, [msg |-> "unsupported type of SQL (only DDL is supported)", ddl |-> ddl])
          ELSE DispatchStmt(parsed.stmt, ddl)

parseDDL(m, ddl) ==
    LET parsed == ParseWithMode(ddl, ParserModeOf(m))
    IN  IF parsed.err # Nil THEN Return(Nil, parsed.err)
        ELSE DispatchStmt(parsed.stmt, ddl)

StmtChars == {" "} \cup IdentChars \cup Keywords
Stmts == SeqsUpTo(StmtChars, MaxStmtLen)

BatchChars == {";", " ", "a", "T", "G", "A", "D"}
Batches == SeqsUpTo(BatchChars, MaxBatchLen)

NoCall == [fn |-> "none"]

Init ==
    /\ pc = "idle"
    /\ last = NoCall
    /\ mode = Nil
    /\ str = <<>>
    /\ ddls = <<>>
    /\ idx = 0
    /\ result = <<>>
    /\ err = Nil
    /\ dispatched = <<>>

loopVars == <<mode, str, ddls, idx, result, err, dispatched>>

\* A caller calls one function of the package on fresh input.
Fresh == pc = "idle" /\ last = NoCall

CallParseValue ==
    /\ Fresh
    /\ \E val \in Literals :
         last' = [fn |-> "parseValue", val |-> val, ret |-> parseValue(val)]
    /\ UNCHANGED <<pc, loopVars>>

CallParseTable ==
    /\ Fresh
    /\ \E stmt \in TableNodes :
         last' = [fn |-> "parseTable", stmt |-> stmt, ret |-> parseTable(stmt)]
    /\ UNCHANGED <<pc, loopVars>>

CallParseIndex ==
    /\ Fresh
    /\ \E stmt \in IndexNodes :
         last' = [fn |-> "parseIndex", stmt |-> stmt, ret |-> parseIndex(stmt)]
    /\ UNCHANGED <<pc, loopVars>>

CallParseDDL ==
    /\ Fresh
    /\ \E m \in GeneratorModes, ddl \in Stmts :
         last' = [fn |-> "parseDDL", mode |-> m, ddl |-> ddl, ret |-> parseDDL(m, ddl)]
    /\ UNCHANGED <<pc, loopVars>>

\* parseDDLs, lines 207-209: the call, the split and the empty result
ParseDDLsCall ==
    /\ Fresh
    /\ \E m \in GeneratorModes, s \in Batches :
         /\ mode' = m
         /\ str' = s
         /\ ddls' = Split(s, ";")
    /\ result' = <<>>
    /\ idx' = 1
    /\ pc' = "loop"
    /\ UNCHANGED <<last, err, dispatched>>

\* Mutant: a statement that fails is skipped and the loop goes on.
ParseDDLsIter_SkipFailed ==
    /\ pc = "loop"
    /\ idx <= Len(ddls)
    /\ LET ddl == TrimSpace(ddls[idx])
       IN  IF Len(ddl) = 0
             THEN /\ idx' = idx + 1
                  /\ UNCHANGED <<pc, result, err, dispatched>>
             ELSE LET r == parseDDL(mode, ddl)
                  IN  /\ dispatched' = Append(dispatched, ddl)
                      /\ idx' = idx + 1
                      /\ result' = IF r.err # Nil THEN result ELSE Append(result, r.ddl)
                      /\ UNCHANGED <<pc, err>>
    /\ UNCHANGED <<last, mode, str, ddls>>

\* parseDDLs, lines 211-222: one iteration of the range loop
ParseDDLsIter ==
    /\ pc = "loop"
    /\ idx <= Len(ddls)
    /\ LET ddl == TrimSpace(ddls[idx])
       IN  IF Len(ddl) = 0
             THEN /\ idx' = idx + 1
                  /\ UNCHANGED <<pc, result, err, dispatched>>
             ELSE LET r == parseDDL(mode, ddl)
                  IN  /\ dispatched' = Append(dispatched, ddl)
                      /\ IF r.err # Nil
                           THEN /\ pc' = "done"
                                /\ err' = r.err
                                /\ UNCHANGED <<idx, result>>
                           ELSE /\ result' = Append(result, r.ddl)
                                /\ idx' = idx + 1
                                /\ UNCHANGED <<pc, err>>
    /\ UNCHANGED <<last, mode, str, ddls>>

\* parseDDLs, line 223: the loop is over, return result, nil
ParseDDLsReturn ==
    /\ pc = "loop"
    /\ idx > Len(ddls)
    /\ pc' = "done"
    /\ err' = Nil
    /\ UNCHANGED <<last, mode, str, ddls, idx, result, dispatched>>

Next ==
    \/ CallParseValue
    \/ CallParseTable
    \/ CallParseIndex
    \/ CallParseDDL
    \/ ParseDDLsCall
    \/ ParseDDLsIter
    \/ ParseDDLsReturn

Spec == Init /\ [][Next]_vars

(***************************************************************************)
(* Properties.  What a property expects is written from the plain text of  *)
(* the inputs (character positions, node fields), not with the operators   *)
(* above.                                                                  *)
(***************************************************************************)
IsDigit(c) == c \in Digits

\* [+-]?[0-9]+
WellFormedInt(raw) ==
    LET from == IF raw # <<>> /\ raw[1] \in {"+", "-"} THEN 2 ELSE 1
    IN  from <= Len(raw) /\ \A i \in from..Len(raw) : IsDigit(raw[i])

\* [+-]?([0-9]+(\.[0-9]*)?|\.[0-9]+) over the characters of the model
WellFormedFloat(raw) ==
    LET from == IF raw # <<>> /\ raw[1] \in {"+", "-"} THEN 2 ELSE 1
    IN  /\ \E i \in from..Len(raw) : IsDigit(raw[i])
        /\ \A i \in from..Len(raw) : IsDigit(raw[i]) \/ raw[i] = "."
        /\ Cardinality({i \in from..Len(raw) : raw[i] = "."}) <= 1

WellFormedNumber(type, raw) ==
    IF type = IntVal THEN WellFormedInt(raw) ELSE WellFormedFloat(raw)

\* C7: parseValue never returns a numeric Value for an Integer or Float literal
\* whose raw text is not a well-formed number of that kind.
C7_NoFabricatedNumber ==
    (/\ last.fn = "parseValue"
     /\ last.val # Nil
     /\ last.val.Type \in {IntVal, FloatVal}
     /\ ~WellFormedNumber(last.val.Type, last.val.Val))
    => ~(last.ret # Nil /\ last.ret.valueType \in {ValueTypeInt, ValueTypeFloat})

\* C8: a Bit literal gives a Value tagged Bit whose payload is true exactly when
\* the raw text is the single character "1", and which keeps the raw text.
C8_BitDecode ==
    (last.fn = "parseValue" /\ last.val # Nil /\ last.val.Type = BitVal)
    => /\ last.ret # Nil
       /\ last.ret.valueType = ValueTypeBit
       /\ last.ret.bitVal <=> (Len(last.val.Val) = 1 /\ last.val.Val[1] = "1")
       /\ last.ret.raw = last.val.Val

C8_Witness ==
    /\ last.fn = "parseValue"
    /\ last.val = SQLVal(BitVal, <<"1">>)
    /\ last.ret.valueType = ValueTypeBit
    /\ last.ret.bitVal

\* What the Value of an optional literal of the grammar must be: None when the
\* literal is absent, otherwise a Value of the literal's kind with its raw text.
ValueOfLiteral(lit, v) ==
    IF lit = Nil THEN v = Nil
    ELSE /\ v # Nil
         /\ v.raw = lit.Val
         /\ (lit.Type = IntVal => v.valueType = ValueTypeInt)
         /\ (lit.Type = StrVal => v.valueType = ValueTypeStr /\ v.strVal = lit.Val)
         /\ (lit.Type = FloatVal => v.valueType = ValueTypeFloat)
         /\ (lit = SQLVal(IntVal, <<"1", "0">>) => v.intVal = 10)

\* C9: parseTable gives one Column per column definition and one Index per
\* inline index definition, in declared order, duplicates kept; index columns
\* keep their order and number; absent default, length, scale and prefix length
\* are None.
C9_TableKeepsDeclarations ==
    last.fn = "parseTable"
    => LET cols == last.stmt.TableSpec.Columns
           ixs  == last.stmt.TableSpec.Indexes
           t    == last.ret
       IN  /\ Len(t.columns) = Len(cols)
           /\ \A i \in 1..Len(cols) :
                /\ t.columns[i].name = cols[i].Name.val
                /\ t.columns[i].typeName = cols[i].Type.Type
                /\ ValueOfLiteral(cols[i].Type.Default, t.columns[i].defaultVal)
                /\ ValueOfLiteral(cols[i].Type.Length, t.columns[i].length)
                /\ ValueOfLiteral(cols[i].Type.Scale, t.columns[i].scale)
           /\ Len(t.indexes) = Len(ixs)
           /\ \A j \in 1..Len(ixs) :
                /\ t.indexes[j].name = ixs[j].Info.Name.val
                /\ Len(t.indexes[j].columns) = Len(ixs[j].Columns)
                /\ \A k \in 1..Len(ixs[j].Columns) :
                     /\ t.indexes[j].columns[k].column = ixs[j].Columns[k].Column.val
                     /\ ValueOfLiteral(ixs[j].Columns[k].Length, t.indexes[j].columns[k].length)

\* CREATE TABLE t (a INT, b VARCHAR(10)), and a table that declares a twice
C9_Witness ==
    /\ last.fn = "parseTable"
    /\ Len(last.stmt.TableSpec.Columns) = 2
    /\ last.stmt.TableSpec.Columns[1].Name.val = "a"
    /\ last.stmt.TableSpec.Columns[1].Type.Type = "int"
    /\ last.stmt.TableSpec.Columns[2].Name.val = "b"
    /\ last.stmt.TableSpec.Columns[2].Type.Type = "varchar"
    /\ last.ret.columns[1].name = "a"
    /\ last.ret.columns[2].name = "b"
    /\ last.ret.columns[2].length.valueType = ValueTypeInt
    /\ last.ret.columns[2].length.intVal = 10
    /\ last.ret.columns[1].length = Nil

\* The Index that a node with an index specification must give.
IndexOfNode(stmt, index) ==
    /\ index.name = stmt.IndexSpec.Name.val
    /\ index.indexType = ""
    /\ index.primary = FALSE
    /\ index.unique = stmt.IndexSpec.Unique
    /\ Len(index.columns) = Len(stmt.IndexCols)
    /\ \A i \in 1..Len(stmt.IndexCols) :
         index.columns[i].column = stmt.IndexCols[i].val /\ index.columns[i].length = Nil

\* The syntax tree of the last parseDDL call.
LastParsed == ParseWithMode(last.ddl, ParserModeOf(last.mode))

\* C5: for a node with an index specification, parseIndex succeeds with the
\* specification's name, an empty indexType, primary false, the node's unique
\* flag and the node's column identifiers in order, each with no prefix length;
\* so does the index of the DDL on the three routes of parseDDL.
C5_IndexFromSpec ==
    /\ (last.fn = "parseIndex" /\ last.stmt.IndexSpec # Nil)
       => last.ret.err = Nil /\ IndexOfNode(last.stmt, last.ret.index)
    /\ (/\ last.fn = "parseDDL"
        /\ LastParsed.err = Nil
        /\ LastParsed.stmt.kind = "DDL"
        /\ LastParsed.stmt.Action \in {"create index", "add index", "add primary key"}
        /\ LastParsed.stmt.IndexSpec # Nil)
       => /\ last.ret.err = Nil
          /\ last.ret.ddl # Nil
          /\ IndexOfNode(LastParsed.stmt, last.ret.ddl.index)

\* ALTER TABLE t ADD PRIMARY KEY (b, a)
C5_Witness ==
    /\ last.fn = "parseDDL"
    /\ last.ddl = <<"K", "b", "a">>
    /\ last.ret.ddl # Nil
    /\ last.ret.ddl.index.primary = FALSE
    /\ last.ret.ddl.index.unique = TRUE
    /\ last.ret.ddl.index.columns = <<[column |-> "b", length |-> Nil], [column |-> "a", length |-> Nil]>>
SupportedActions == {"create", "create index", "add index", "add primary key"}

VariantOf(action) ==
    CASE action = "create"          -> "CreateTable"
      [] action = "create index"    -> "CreateIndex"
      [] action = "add index"       -> "AddIndex"
      [] action = "add primary key" -> "AddPrimaryKey"

IsUnsupportedAction(e, action, text) ==
    /\ e # Nil
    /\ e.msg = "unsupported type of DDL action"
    /\ e.action = action
    /\ e.ddl = text

IsMissingIndexSpec(e) == e # Nil /\ e.msg = "stmt.IndexSpec was null on parseIndex"

LastIsDDLNode == last.fn = "parseDDL" /\ LastParsed.err = Nil /\ LastParsed.stmt.kind = "DDL"

LacksIndexSpec(stmt) ==
    stmt.Action \in {"create index", "add index", "add primary key"} /\ stmt.IndexSpec = Nil

\* C1, as stated: for every DDL node parseDDL returns the variant of the node's
\* action, and for every other action no DDL and an UnsupportedAction error with
\* the action and the statement text.
C1_VariantForEveryNode ==
    LastIsDDLNode
    => LET stmt == LastParsed.stmt
           r    == last.ret
       IN  IF stmt.Action \in SupportedActions
             THEN r.err = Nil /\ r.ddl # Nil /\ r.ddl.variant = VariantOf(stmt.Action)
             ELSE r.ddl = Nil /\ IsUnsupportedAction(r.err, stmt.Action, last.ddl)

\* C1, amended: the same, for "create" nodes and for index nodes that carry an
\* index specification; an index node without one gives no DDL and the
\* MissingIndexSpec error.
C1_VariantForNodeWithSpec ==
    LastIsDDLNode
    => LET stmt == LastParsed.stmt
           r    == last.ret
       IN  IF stmt.Action \notin SupportedActions
             THEN r.ddl = Nil /\ IsUnsupportedAction(r.err, stmt.Action, last.ddl)
           ELSE IF LacksIndexSpec(stmt)
             THEN r.ddl = Nil /\ IsMissingIndexSpec(r.err)
           ELSE r.err = Nil /\ r.ddl # Nil /\ r.ddl.variant = VariantOf(stmt.Action)

\* ALTER TABLE t ADD INDEX i (a)
C1_Witness ==
    /\ last.fn = "parseDDL"
    /\ last.ddl = <<"A", " ", "a">>
    /\ LastParsed.stmt.Action = "add index"
    /\ last.ret.err = Nil
    /\ last.ret.ddl.variant = "AddIndex"

\* C6: a call of parseDDL returns exactly one of a DDL and an error; the error
\* is the grammar's own error when the grammar fails, otherwise the
\* unsupported-statement error with the text for a node that is no DDL,
\* otherwise the unsupported-action error, otherwise the MissingIndexSpec error
\* for an index action without index specification; otherwise there is none.
C6_OneOutcomeInOrder ==
    last.fn = "parseDDL"
    => LET p == LastParsed
           r == last.ret
       IN  /\ (r.ddl = Nil) # (r.err = Nil)
           /\ IF p.err # Nil THEN r.err = p.err
              ELSE IF p.stmt.kind # "DDL"
                THEN /\ r.err # Nil
                     /\ r.err.msg = "unsupported type of SQL (only DDL is supported)"
                     /\ r.err.ddl = last.ddl
              ELSE IF p.stmt.Action \notin SupportedActions
                THEN IsUnsupportedAction(r.err, p.stmt.Action, last.ddl)
              ELSE IF LacksIndexSpec(p.stmt) THEN IsMissingIndexSpec(r.err)
              ELSE r.err = Nil

\* an "add index" node without index specification
C6_Witness ==
    /\ last.fn = "parseDDL"
    /\ LastParsed.err = Nil
    /\ LastParsed.stmt.kind = "DDL"
    /\ LacksIndexSpec(LastParsed.stmt)
    /\ last.ret.ddl = Nil
    /\ IsMissingIndexSpec(last.ret.err)

(***************************************************************************)
(* The candidates of a batch, read off the positions of its characters.    *)
(***************************************************************************)
SepsOf(s) == {i \in 1..Len(s) : s[i] = ";"}

\* position of the k-th ';' of s; 0 for k = 0 and Len(s) + 1 past the last one
SepPos(s, k) ==
    IF k = 0 THEN 0
    ELSE IF k > Cardinality(SepsOf(s)) THEN Len(s) + 1
    ELSE CHOOSE i \in SepsOf(s) : Cardinality({j \in SepsOf(s) : j <= i}) = k

Segment(s, k) == SubSeq(s, SepPos(s, k - 1) + 1, SepPos(s, k) - 1)

Trimmed(t) ==
    LET ink == {i \in 1..Len(t) : t[i] \notin {" ", "\t", "\n", "\r"}}
    IN  IF ink = {} THEN <<>>
        ELSE SubSeq(t, CHOOSE i \in ink : \A j \in ink : i <= j,
                       CHOOSE i \in ink : \A j \in ink : j <= i)

\* the non-empty trimmed segments of s, in order
Candidates(s) ==
    SelectSeq([k \in 1..(Cardinality(SepsOf(s)) + 1) |-> Trimmed(Segment(s, k))],
              LAMBDA t : t # <<>>)

Fails(m, text) == parseDDL(m, text).err # Nil

\* index of the first candidate whose dispatch fails, 0 when none fails
FirstFailing(m, c) ==
    IF \E k \in 1..Len(c) : Fails(m, c[k])
      THEN CHOOSE k \in 1..Len(c) : Fails(m, c[k]) /\ \A j \in 1..(k - 1) : ~Fails(m, c[j])
      ELSE 0

\* C2: when a candidate of the batch fails, parseDDLs returns the error of the
\* first such candidate and exactly the DDLs of the candidates before it, in
\* order, and hands no candidate after it to parseDDL.
C2_StopsAtFirstFailure ==
    LET c == Candidates(str)
        f == FirstFailing(mode, c)
    IN  (pc \in {"loop", "done"} /\ f > 0)
        => /\ Len(dispatched) <= f
           /\ pc = "done"
              => /\ err # Nil
                 /\ err = parseDDL(mode, c[f]).err
                 /\ result = [k \in 1..(f - 1) |-> parseDDL(mode, c[k]).ddl]
                 /\ dispatched = SubSeq(c, 1, f)

\* CREATE TABLE t; DROP TABLE t; CREATE TABLE t
C2_Witness ==
    /\ pc = "done"
    /\ str = <<"T", ";", "D", ";", "T">>
    /\ Len(result) = 1
    /\ result[1].variant = "CreateTable"
    /\ IsUnsupportedAction(err, "drop", <<"D">>)
    /\ dispatched = << <<"T">>, <<"D">> >>

\* C3: when no candidate of the batch fails, parseDDLs returns no error and one
\* DDL per segment that is not empty after trimming, in the order of the
\* segments; empty segments give nothing.
C3_OneDDLPerSegment ==
    LET c == Candidates(str)
    IN  (pc = "done" /\ FirstFailing(mode, c) = 0)
        => /\ err = Nil
           /\ Len(result) = Len(c)
           /\ \A k \in 1..Len(c) : result[k] # Nil /\ result[k].statement = c[k]

\* two CREATE TABLE statements around a blank segment
C3_Witness ==
    /\ pc = "done"
    /\ str = <<"T", ";", " ", ";", "G">>
    /\ err = Nil
    /\ Len(result) = 2
    /\ result[1].statement = <<"T">>
    /\ result[2].statement = <<"G">>

\* C4: every DDL returned by parseDDL, and every DDL in the result of
\* parseDDLs, keeps the statement text it was built from, character for
\* character.
C4_StatementKept ==
    /\ (last.fn = "parseDDL" /\ last.ret.ddl # Nil) => last.ret.ddl.statement = last.ddl
    /\ pc \in {"loop", "done"}
       => /\ Len(result) <= Len(Candidates(str))
          /\ \A k \in 1..Len(result) : result[k].statement = Candidates(str)[k]

\* " T a;" gives a CreateTable whose statement is "T a"
C4_Witness ==
    /\ pc = "done"
    /\ str = <<" ", "T", " ", "a", ";">>
    /\ Len(result) = 1
    /\ result[1].variant = "CreateTable"
    /\ result[1].statement = <<"T", " ", "a">>

\* each candidate dispatched on its own, in order, up to the first failure
RECURSIVE DispatchEach(_, _)
DispatchEach(m, c) ==
    IF c = <<>> THEN [result |-> <<>>, err |-> Nil]
    ELSE LET r == parseDDL(m, Head(c))
         IN  IF r.err # Nil THEN [result |-> <<>>, err |-> r.err]
             ELSE LET rest == DispatchEach(m, Tail(c))
                  IN  [result |-> <<r.ddl>> \o rest.result, err |-> rest.err]

\* C10: what parseDDLs returns for a batch is what dispatching each non-empty
\* trimmed candidate on its own gives, in order, up to the first failure: the
\* outcome of a candidate does not depend on the candidates before it.
C10_BatchIsEachOnItsOwn ==
    pc = "done" => [result |-> result, err |-> err] = DispatchEach(mode, Candidates(str))

\* the same statement twice in a batch gives two equal DDLs
C10_Witness ==
    /\ pc = "done"
    /\ str = <<"A", "a", ";", "A", "a">>
    /\ err = Nil
    /\ Len(result) = 2
    /\ result[1] = result[2]
    /\ result[1] = parseDDL(mode, <<"A", "a">>).ddl
====
